---- MODULE Spec2Model ----
(***************************************************************************)
(* Model of instrumentino/communication/controlino_protocol.py:            *)
(* ControlinoProtocol.handle_incoming_bytes (the decode loop over the      *)
(* connection's byte buffer), the construct formats it parses with, the     *)
(* class-level string_packets_queue and ControlinoProtocol.ping.            *)
(***************************************************************************)
EXTENDS Integers, Sequences, FiniteSets, TLC

(***************************************************************************)
(* Bounds of the model.                                                    *)
(***************************************************************************)
\* longest run of noise bytes ahead of the first packet of a stream
MaxNoise == 2
\* number of ping() calls in one behaviour
MaxPings == 2
\* comm_port.MAX_BYTES_PER_READ: the transport's limit, small enough for a
\* read of the streams below to exceed it
MAX_BYTES_PER_READ == 16
\* longest list of values write_to_channel is given
MaxValues == 2
\* number of commands sent in one behaviour of SpecCmd
MaxCommands == 2

(***************************************************************************)
(* Program constants.                                                      *)
(***************************************************************************)
\* CONST_HEADER = b'\xA5\xA5\xA5\xA5'
CONST_HEADER == <<165, 165, 165, 165>>

\* incoming_packet_types = {'DATA_PACKET': 0, 'STRING_PACKET': 1}
incoming_packet_types == [DATA_PACKET |-> 0, STRING_PACKET |-> 1]

\* string_packets_queue = queue.Queue(maxsize=10)
QueueMaxSize == 10

\* STRING_PACKET_TYPE_PONG = 'PONG' as code points
STRING_PACKET_TYPE_PONG == <<80, 79, 78, 71>>

\* CMD_PING = 'PING'
CMD_PING == <<80, 73, 78, 71>>

\* CMD_ACQUIRE_START = 'ACQUIRE:START'
CMD_ACQUIRE_START == <<65, 67, 81, 85, 73, 82, 69, 58, 83, 84, 65, 82, 84>>

\* CMD_CHANNEL_DIRECTION = 'CH:DIR', CHANNEL_DIRECTION_IN / _OUT = 'IN' / 'OUT'
CMD_CHANNEL_DIRECTION == <<67, 72, 58, 68, 73, 82>>
CHANNEL_DIRECTION_IN == <<73, 78>>
CHANNEL_DIRECTION_OUT == <<79, 85, 84>>

\* CMD_CHANNEL_REGISTER = 'CH:REGISTER'
CMD_CHANNEL_REGISTER == <<67, 72, 58, 82, 69, 71, 73, 83, 84, 69, 82>>

\* CMD_CHANNEL_WRITE = 'CH:WRITE'
CMD_CHANNEL_WRITE == <<67, 72, 58, 87, 82, 73, 84, 69>>

(***************************************************************************)
(* Python sequence primitives used by the handler.                         *)
(***************************************************************************)
Min(a, b) == IF a < b THEN a ELSE b

\* s[a:b] for 0 <= a, 0 <= b (indices clipped to the length)
Slice(s, a, b) == SubSeq(s, a + 1, Min(b, Len(s)))

\* s[:n] = [] for n >= 0
DropFirst(s, n) == SubSeq(s, n + 1, Len(s))

\* bytearray.find(CONST_HEADER): lowest index of the marker, or -1
Find(buf) ==
  LET idx == {i \in 0..(Len(buf) - Len(CONST_HEADER)) :
                 SubSeq(buf, i + 1, i + Len(CONST_HEADER)) = CONST_HEADER}
  IN IF idx = {} THEN -1 ELSE CHOOSE i \in idx : \A j \in idx : i <= j

(***************************************************************************)
(* construct formats.  A parse result is a record with field ok; ok=FALSE  *)
(* stands for the construct exception the parse raises.                    *)
(***************************************************************************)
\* Int16ub
Int16ub(b, off) == b[off + 1] * 256 + b[off + 2]

\* big-endian integers wider than 16 bits are kept as their sequence of
\* 16-bit words (most significant first): their value exceeds the range of
\* TLC's 32-bit integers.
RECURSIVE Words(_)
Words(b) == IF Len(b) < 2 THEN <<>>
            ELSE <<Int16ub(b, 0)>> \o Words(DropFirst(b, 2))

\* Int32ub
Int32ub(b, off) == Words(SubSeq(b, off + 1, off + 4))

\* subcon[:] inside Prefixed: as many whole elements of width w as fit
RECURSIVE GreedyRange(_, _)
GreedyRange(b, w) ==
  IF Len(b) < w THEN <<>>
  ELSE <<(IF w = 1 THEN b[1]
          ELSE IF w = 2 THEN Int16ub(b, 0)
          ELSE Words(SubSeq(b, 1, w)))>> \o GreedyRange(DropFirst(b, w), w)

\* packet_header_format.sizeof(): 4 (Const) + 1 (Int8ub) + 2 (Int16ub)
HeaderSize == Len(CONST_HEADER) + 1 + 2

\* Enum(Int8ub, **incoming_packet_types): the name of the value.  The
\* formats are written for construct 2.8 (PrefixedArray(lengthfield=...),
\* Int8ub[:]), whose Enum without a default raises MappingError on a value
\* outside the mapping ("" here).
EnumDecode(v) ==
  IF v = incoming_packet_types.DATA_PACKET THEN "DATA_PACKET"
  ELSE IF v = incoming_packet_types.STRING_PACKET THEN "STRING_PACKET"
  ELSE ""

ParseFail == [ok |-> FALSE]

\* packet_header_format.parse
ParseHeader(b) ==
  IF Len(b) < HeaderSize THEN ParseFail
  ELSE IF SubSeq(b, 1, Len(CONST_HEADER)) # CONST_HEADER THEN ParseFail
  ELSE IF EnumDecode(b[5]) = "" THEN ParseFail
  ELSE [ok |-> TRUE, const_header |-> CONST_HEADER, type |-> EnumDecode(b[5]),
        packet_length |-> Int16ub(b, 5)]

\* Union(Int8=Prefixed(Int16ub, Int8ub[:]), Int16=..., Int32=..., Int64=...)
\* applied to the bytes the Int16ub prefix delimits
UnionParse(payload) ==
  [Int8  |-> GreedyRange(payload, 1),
   Int16 |-> GreedyRange(payload, 2),
   Int32 |-> GreedyRange(payload, 4),
   Int64 |-> GreedyRange(payload, 8)]

\* PrefixedArray body: n blocks of data_packet_data_block_format from offset
RECURSIVE ParseBlocks(_, _, _)
ParseBlocks(b, off, n) ==
  IF n = 0 THEN [ok |-> TRUE, blocks |-> <<>>]
  ELSE IF Len(b) < off + 3 THEN ParseFail
  ELSE LET ln == Int16ub(b, off + 1)
       IN IF Len(b) < off + 3 + ln THEN ParseFail
          ELSE LET rest == ParseBlocks(b, off + 3 + ln, n - 1)
               IN IF ~rest.ok THEN ParseFail
                  ELSE [ok |-> TRUE,
                        blocks |-> <<[block_id |-> b[off + 1],
                                      data |-> UnionParse(SubSeq(b, off + 4, off + 3 + ln))]>>
                                   \o rest.blocks]

\* faulty variant of DataParse: takes the block count one byte early, from
\* the last byte of the timestamp
DataParseCountEarly(packet) ==
  LET h == ParseHeader(packet)
  IN IF ~h.ok THEN ParseFail
     ELSE IF Len(packet) < HeaderSize + 4 + 1 THEN ParseFail
     ELSE LET bl == ParseBlocks(packet, HeaderSize + 5, packet[HeaderSize + 4])
          IN IF ~bl.ok THEN ParseFail
             ELSE [ok |-> TRUE,
                   packet_header |-> h,
                   relative_start_timestamp |-> Int32ub(packet, HeaderSize),
                   data_blocks |-> bl.blocks]

\* data_packet_format.parse
DataParse(packet) ==
  LET h == ParseHeader(packet)
  IN IF ~h.ok THEN ParseFail
     ELSE IF Len(packet) < HeaderSize + 4 + 1 THEN ParseFail
     ELSE LET bl == ParseBlocks(packet, HeaderSize + 5, packet[HeaderSize + 5])
          IN IF ~bl.ok THEN ParseFail
             ELSE [ok |-> TRUE,
                   packet_header |-> h,
                   relative_start_timestamp |-> Int32ub(packet, HeaderSize),
                   data_blocks |-> bl.blocks]

\* bytes.decode('utf8'): the code points, or failure on an invalid sequence
IsCont(x) == x >= 128 /\ x <= 191

RECURSIVE Utf8Decode(_)
Utf8Decode(b) ==
  IF b = <<>> THEN [ok |-> TRUE, cps |-> <<>>]
  ELSE
    LET c == b[1]
        n == IF c < 128 THEN 1
             ELSE IF c >= 194 /\ c <= 223 THEN 2
             ELSE IF c >= 224 /\ c <= 239 THEN 3
             ELSE IF c >= 240 /\ c <= 244 THEN 4
             ELSE 0
    IN IF n = 0 \/ Len(b) < n THEN ParseFail
       ELSE IF \E i \in 2..n : ~IsCont(b[i]) THEN ParseFail
       ELSE IF c = 224 /\ b[2] < 160 THEN ParseFail
       ELSE IF c = 237 /\ b[2] > 159 THEN ParseFail
       ELSE IF c = 240 /\ b[2] < 144 THEN ParseFail
       ELSE IF c = 244 /\ b[2] > 143 THEN ParseFail
       ELSE LET cp == IF n = 1 THEN c
                      ELSE IF n = 2 THEN (c - 192) * 64 + (b[2] - 128)
                      ELSE IF n = 3 THEN (c - 224) * 4096 + (b[2] - 128) * 64 + (b[3] - 128)
                      ELSE (c - 240) * 262144 + (b[2] - 128) * 4096
                           + (b[3] - 128) * 64 + (b[4] - 128)
                rest == Utf8Decode(DropFirst(b, n))
            IN IF ~rest.ok THEN ParseFail
               ELSE [ok |-> TRUE, cps |-> <<cp>> \o rest.cps]

\* string_packet_format.parse
StringParse(packet) ==
  LET h == ParseHeader(packet)
  IN IF ~h.ok THEN ParseFail
     ELSE LET s == Utf8Decode(DropFirst(packet, HeaderSize))
          IN IF ~s.ok THEN ParseFail
             ELSE [ok |-> TRUE, packet_header |-> h, string |-> s.cps]

(***************************************************************************)
(* One pass of the "while True" loop of handle_incoming_bytes on buffer    *)
(* buf.  outcome: "no_marker", "no_header", "incomplete" (the three        *)
(* returns), "raise" (a construct exception leaves the call), "data" /     *)
(* "string" (a packet was parsed and is handed to update_input_channels /  *)
(* string_packets_queue.put, the loop goes on), "discard" (unrecognized    *)
(* packet deleted, the loop goes on).                                      *)
(***************************************************************************)
IterResult(b, o, p) == [buf |-> b, outcome |-> o, pkt |-> p]

NoPacket == [ok |-> FALSE]

\* faulty variant of Iteration: a buffer without a marker is kept, and so are
\* the bytes before the marker
IterationKeepsGarbage(buf) ==
  LET packet_start == Find(buf)
      b1 == DropFirst(buf, packet_start)
  IN IF packet_start = -1 THEN IterResult(buf, "no_marker", NoPacket)
     ELSE IF Len(b1) < HeaderSize THEN IterResult(buf, "no_header", NoPacket)
     ELSE IF ~ParseHeader(b1).ok THEN IterResult(b1, "raise", NoPacket)
     ELSE
       LET packet_end == packet_start + ParseHeader(b1).packet_length
           packet == Slice(b1, packet_start, packet_end)
           b2 == DropFirst(b1, packet_end)
       IN IF Len(b1) < packet_end THEN IterResult(b1, "incomplete", NoPacket)
          ELSE IF ParseHeader(b1).type = "DATA_PACKET"
          THEN IF DataParse(packet).ok THEN IterResult(b2, "data", DataParse(packet))
               ELSE IterResult(b2, "raise", NoPacket)
          ELSE IF StringParse(packet).ok THEN IterResult(b2, "string", StringParse(packet))
               ELSE IterResult(b2, "raise", NoPacket)

\* faulty variant of Iteration: a packet that is not complete yet is deleted
\* with the garbage instead of being kept for the next call
IterationDropsIncomplete(buf) ==
  LET packet_start == Find(buf)
      b1 == DropFirst(buf, packet_start)
  IN IF packet_start = -1 THEN IterResult(<<>>, "no_marker", NoPacket)
     ELSE IF Len(b1) < HeaderSize THEN IterResult(b1, "no_header", NoPacket)
     ELSE IF ~ParseHeader(b1).ok THEN IterResult(b1, "raise", NoPacket)
     ELSE
       LET packet_end == packet_start + ParseHeader(b1).packet_length
           packet == Slice(b1, packet_start, packet_end)
           b2 == DropFirst(b1, packet_end)
       IN IF Len(b1) < packet_end THEN IterResult(<<>>, "incomplete", NoPacket)
          ELSE IF ParseHeader(b1).type = "DATA_PACKET"
          THEN IF DataParse(packet).ok THEN IterResult(b2, "data", DataParse(packet))
               ELSE IterResult(b2, "raise", NoPacket)
          ELSE IF StringParse(packet).ok THEN IterResult(b2, "string", StringParse(packet))
               ELSE IterResult(b2, "raise", NoPacket)

Iteration(buf) ==
  LET packet_start == Find(buf)
  IN IF packet_start = -1
     THEN \* Delete garbage incoming data
          IterResult(<<>>, "no_marker", NoPacket)
     ELSE
       LET b1 == DropFirst(buf, packet_start)
       IN IF Len(b1) < HeaderSize
          THEN \* Not enough bytes for a packet header
               IterResult(b1, "no_header", NoPacket)
          ELSE
            LET packet_header == ParseHeader(b1)
            IN IF ~packet_header.ok
               THEN IterResult(b1, "raise", NoPacket)
               ELSE
                 LET packet_end == packet_start + packet_header.packet_length
                 IN IF Len(b1) < packet_end
                    THEN IterResult(b1, "incomplete", NoPacket)
                    ELSE
                      LET packet == Slice(b1, packet_start, packet_end)
                          b2 == DropFirst(b1, packet_end)
                      IN IF packet_header.type = "DATA_PACKET"
                         THEN LET d == DataParse(packet)
                              IN IF d.ok THEN IterResult(b2, "data", d)
                                 ELSE IterResult(b2, "raise", NoPacket)
                         ELSE IF packet_header.type = "STRING_PACKET"
                         THEN LET t == StringParse(packet)
                              IN IF t.ok THEN IterResult(b2, "string", t)
                                 ELSE IterResult(b2, "raise", NoPacket)
                         ELSE \* Delete unrecognized incoming packet
                              IterResult(DropFirst(b2, packet_end), "discard", NoPacket)

(***************************************************************************)
(* The byte streams a controller sends, built from the packet layouts of   *)
(* the format docstrings: [const_header, 4][type, 1][packet_length, 2] and *)
(* the type's body; packet_length is the total length of the packet.       *)
(***************************************************************************)
Packet(type, length, body) ==
  CONST_HEADER \o <<type, length \div 256, length % 256>> \o body

\* a packet whose packet_length is its real total length
WellFormed(type, body) == Packet(type, HeaderSize + Len(body), body)

\* n bytes that hold no marker
RECURSIVE Repeat(_, _)
Repeat(s, n) == IF n = 0 THEN <<>> ELSE s \o Repeat(s, n - 1)

Noise(n) == Repeat(<<255>>, n)

\* STRING packets 'PONG' and 'PONX'
PongPacket == WellFormed(incoming_packet_types.STRING_PACKET, <<80, 79, 78, 71>>)
PonxPacket == WellFormed(incoming_packet_types.STRING_PACKET, <<80, 79, 78, 88>>)

\* DATA packet: timestamp 0, one block, id 5, one byte of data, value 7
DataBody == <<0, 0, 0, 0, 1, 5, 0, 1, 7>>
DataPacket == WellFormed(incoming_packet_types.DATA_PACKET, DataBody)

\* the same 16 bytes with packet_length 10
ShortLengthPacket == Packet(incoming_packet_types.DATA_PACKET, 10, DataBody)

\* DATA packet whose block data is the marker's four bytes
MarkerDataPacket ==
  WellFormed(incoming_packet_types.DATA_PACKET, <<0, 0, 0, 1, 1, 6, 0, 4>> \o CONST_HEADER)

\* STRING packet whose body is not UTF-8
BadUtf8Packet == WellFormed(incoming_packet_types.STRING_PACKET, <<255>>)

\* packet of a type outside incoming_packet_types
UnknownTypePacket == WellFormed(2, <<0>>)

\* header that declares packet_length 0
ZeroLengthHeader == Packet(incoming_packet_types.DATA_PACKET, 0, <<>>)

\* the packets that parse: their packet_length and body fit their type
ValidPackets == {PongPacket, PonxPacket, DataPacket, MarkerDataPacket}

\* the packets and headers a stream is built from
Pieces ==
  ValidPackets \cup {ShortLengthPacket, BadUtf8Packet, UnknownTypePacket, ZeroLengthHeader}

\* what may follow the first packet of a stream
Followers == {<<>>, PongPacket, DataPacket}

\* more STRING packets in a row than the queue holds
Burst == Repeat(PongPacket, QueueMaxSize + 1)

\* a stream: noise, then a packet of any kind, then possibly a valid packet
Streams ==
  {Noise(n) \o p \o q : n \in 0..MaxNoise, p \in Pieces, q \in Followers}

(***************************************************************************)
(* build_command_packet: ' '.join('{}'.format(x) for x in                  *)
(* ([command] + parameters)) + '\r'.  Text is a sequence of code points; a *)
(* list element is a str or an int.                                        *)
(***************************************************************************)
str(text) == [kind |-> "str", text |-> text, value |-> 0]
int(n) == [kind |-> "int", text |-> <<>>, value |-> n]

\* the decimal digits of n >= 0
RECURSIVE Digits(_)
Digits(n) == IF n < 10 THEN <<48 + n>> ELSE Digits(n \div 10) \o <<48 + (n % 10)>>

\* '{}'.format(x)
Format(x) == IF x.kind = "str" THEN x.text ELSE Digits(x.value)

\* ' '.join(words)
RECURSIVE Join(_)
Join(words) ==
  IF words = <<>> THEN <<>>
  ELSE IF Len(words) = 1 THEN words[1]
  ELSE words[1] \o <<32>> \o Join(Tail(words))

\* faulty variant of build_command_packet: follows its docstring
\* "[command] [param1] [param2] ... \r" to the letter, a space before '\r'
BuildCommandPacketSpaceBeforeCr(command, parameters) ==
  LET words == <<command>> \o parameters
  IN Join([i \in 1..Len(words) |-> Format(words[i])]) \o <<32, 13>>

build_command_packet(command, parameters) ==
  LET words == <<command>> \o parameters
  IN Join([i \in 1..Len(words) |-> Format(words[i])]) \o <<13>>

(***************************************************************************)
(* The argument lists of the command senders: channel identifiers,         *)
(* sampling rates and the values written to a channel.                     *)
(***************************************************************************)
\* channel.get_identifier(): 'A0', 'D2'
Identifiers == {<<65, 48>>, <<68, 50>>}

\* channel.sampling_rate
SamplingRates == {10, 100}

\* an element of the values list of write_to_channel: '123', 123, 0
Values == {str(<<49, 50, 51>>), int(123), int(0)}

RECURSIVE ListsUpTo(_, _)
ListsUpTo(S, n) ==
  IF n = 0 THEN {<<>>}
  ELSE LET shorter == ListsUpTo(S, n - 1)
       IN shorter \cup {Append(l, x) : l \in shorter, x \in S}

\* register_input_channel: [channel.get_identifier(), str(channel.sampling_rate)]
RegisterCalls ==
  {[command |-> str(CMD_CHANNEL_REGISTER),
    parameters |-> <<str(id), str(Digits(r))>>] :
     id \in Identifiers, r \in SamplingRates}

\* set_channel_direction: [channel.get_identifier(), OUT if is_output else IN]
DirectionCalls ==
  {[command |-> str(CMD_CHANNEL_DIRECTION), parameters |-> <<str(id), str(d)>>] :
     id \in Identifiers, d \in {CHANNEL_DIRECTION_IN, CHANNEL_DIRECTION_OUT}}

\* write_to_channel: [channel.get_identifier()] + values
WriteCalls ==
  {[command |-> str(CMD_CHANNEL_WRITE), parameters |-> <<str(id)>> \o v] :
     id \in Identifiers, v \in ListsUpTo(Values, MaxValues)}

(***************************************************************************)
(* State.                                                                  *)
(***************************************************************************)
VARIABLES
  sent,            \* the bytes the controller sends over the link, in order
  pos,             \* how many of them the transport has read so far
  incoming_bytes,  \* the buffer handle_incoming_bytes works on
  pc,              \* handle_incoming_bytes: "idle", "loop", "put" (inside queue.put)
  caller,          \* who called it: "transport" or "ping" (comm_port.receive)
  pending,         \* the string packet queue.put is waiting to add
  queue,           \* string_packets_queue
  dispatched,      \* log of update_input_channels calls and completed puts
  gets,            \* log of the entries ping took from the queue
  calls,           \* handle_incoming_bytes calls so far: 0, 1, 2 = more than one
  last,            \* outcome of the latest loop iteration ("none" before any)
  raised,          \* whether an exception has left a call
  ppc,             \* ping: "idle", "receive", "receiving", "get"
  transmitted,     \* packets given to comm_port.transmit
  atSend,          \* number of puts so far when the running ping transmitted
  lastPing,        \* the last finished ping: what it returned, the text it
                   \* took from the queue, the first text put after it transmitted
  disconnects,     \* the number of controller.disconnect() calls made by the
                   \* current or the last handle_incoming_bytes call
  default_parameters,  \* the list object that is the default of the
                   \* parameters argument of build_command_packet
  lastCall,        \* the last build_command_packet call of a command sender:
                   \* its arguments, the list passed as it is after the call,
                   \* the packet returned
  other            \* a second ControlinoProtocol instance, on a link of its
                   \* own on which nothing arrives: the position of its
                   \* ping, what it transmitted, its buffer, its last ping

vars == <<sent, pos, incoming_bytes, pc, caller, pending, queue, dispatched,
          gets, calls, last, raised, ppc, transmitted, atSend, lastPing,
          disconnects, default_parameters, lastCall, other>>

decodeVars == <<incoming_bytes, pc, caller, pending, dispatched, calls, last, raised,
                disconnects>>
pingVars == <<ppc, transmitted, atSend, lastPing, gets>>
cmdVars == <<default_parameters, lastCall>>

Entry(to, pkt) == [to |-> to, pkt |-> pkt]

\* the packets update_input_channels received, in order
sink == SelectSeq(dispatched, LAMBDA e : e.to = "sink")
\* the packets put on the queue, in order
puts == SelectSeq(dispatched, LAMBDA e : e.to = "queue")

NoPing == [how |-> "none", value |-> FALSE, reply |-> <<-1>>, arrived |-> <<-1>>]

\* the second instance after construction
NoOther == [ppc |-> "idle", transmitted |-> <<>>, incoming_bytes |-> <<>>,
            lastPing |-> NoPing]

NoCall == [how |-> "none", command |-> str(<<>>), parameters |-> <<>>,
           after |-> <<>>, packet |-> <<>>]

Init ==
  /\ sent \in Streams \cup {Burst}
  /\ pos = 0
  /\ incoming_bytes = <<>>
  /\ pc = "idle"
  /\ caller = "transport"
  /\ pending = NoPacket
  /\ queue = <<>>
  /\ dispatched = <<>>
  /\ gets = <<>>
  /\ calls = 0
  /\ last = "none"
  /\ raised = FALSE
  /\ ppc = "idle"
  /\ transmitted = <<>>
  /\ atSend = 0
  /\ lastPing = NoPing
  /\ disconnects = 0
  /\ default_parameters = <<>>
  /\ lastCall = NoCall
  /\ other = NoOther

(***************************************************************************)
(* The transport reads the next k bytes of the link into the buffer and    *)
(* calls handle_incoming_bytes on it.                                      *)
(***************************************************************************)
\* faulty variant of Enter: returns after disconnect(), the loop is not run
EnterReturnsOnOverload(k, who) ==
  /\ incoming_bytes' = incoming_bytes \o SubSeq(sent, pos + 1, pos + k)
  /\ pos' = pos + k
  /\ disconnects' = IF Len(incoming_bytes') > MAX_BYTES_PER_READ THEN 1 ELSE 0
  /\ pc' = IF Len(incoming_bytes') > MAX_BYTES_PER_READ THEN "idle" ELSE "loop"
  /\ caller' = who
  /\ calls' = Min(calls + 1, 2)

\* faulty variant of Enter: disconnects at the limit already
EnterDisconnectsAtLimit(k, who) ==
  /\ incoming_bytes' = incoming_bytes \o SubSeq(sent, pos + 1, pos + k)
  /\ pos' = pos + k
  /\ disconnects' = IF Len(incoming_bytes') >= MAX_BYTES_PER_READ THEN 1 ELSE 0
  /\ pc' = "loop"
  /\ caller' = who
  /\ calls' = Min(calls + 1, 2)

\* the call of handle_incoming_bytes on the buffer with k more bytes: the
\* overload check, then the loop
Enter(k, who) ==
  /\ incoming_bytes' = incoming_bytes \o SubSeq(sent, pos + 1, pos + k)
  /\ pos' = pos + k
  /\ disconnects' = IF Len(incoming_bytes') > MAX_BYTES_PER_READ THEN 1 ELSE 0
  /\ pc' = "loop"
  /\ caller' = who
  /\ calls' = Min(calls + 1, 2)

\* the sizes of the next read: any number of the bytes left; the burst is
\* read in whole packets
Reads(least) ==
  {k \in least..(Len(sent) - pos) : sent = Burst => k % Len(PongPacket) = 0}

Receive ==
  /\ pc = "idle"
  /\ \E k \in Reads(1) : Enter(k, "transport")
  /\ UNCHANGED <<sent, pending, queue, dispatched, last, raised>>
  /\ UNCHANGED pingVars
  /\ UNCHANGED cmdVars
  /\ UNCHANGED other

\* faulty variant of Returns: the call also returns after a DATA packet
ReturnsAfterData(o) == o \in {"no_marker", "no_header", "incomplete", "data"}

\* the outcomes of an iteration at which the call returns
Returns(o) == o \in {"no_marker", "no_header", "incomplete"}

\* one whole call of handle_incoming_bytes on buffer buf with room in the
\* queue: the buffer it leaves, what it dispatches, whether it raises
RECURSIVE RunLoop(_)
RunLoop(buf) ==
  LET r == Iteration(buf)
  IN IF Returns(r.outcome) \/ r.outcome = "raise"
     THEN [buf |-> r.buf, dispatched |-> <<>>, raised |-> (r.outcome = "raise")]
     ELSE LET rest == RunLoop(r.buf)
              here == IF r.outcome = "data" THEN <<[to |-> "sink", pkt |-> r.pkt]>>
                      ELSE IF r.outcome = "string" THEN <<[to |-> "queue", pkt |-> r.pkt]>>
                      ELSE <<>>
          IN [buf |-> rest.buf, dispatched |-> here \o rest.dispatched,
              raised |-> rest.raised]

\* stands for "no text"
NoText == <<-1>>

\* the text of the first string packet put on the queue since the running
\* ping transmitted
Arrived ==
  IF Len(puts) > atSend THEN puts[atSend + 1].pkt.string ELSE NoText

(***************************************************************************)
(* One iteration of the loop of handle_incoming_bytes.  A return or an     *)
(* exception ends the call; when comm_port.receive() of ping made the call *)
(* ping goes on after a return and is left by the exception otherwise.     *)
(***************************************************************************)
Iterate ==
  /\ pc = "loop"
  /\ LET r == Iteration(incoming_bytes)
         o == r.outcome
     IN /\ incoming_bytes' = r.buf
        /\ last' = o
        /\ raised' = (raised \/ o = "raise")
        /\ pc' = IF Returns(o) \/ o = "raise" THEN "idle"
                 ELSE IF o = "string" /\ Len(queue) >= QueueMaxSize THEN "put"
                 ELSE "loop"
        /\ pending' = IF o = "string" /\ Len(queue) >= QueueMaxSize THEN r.pkt ELSE pending
        /\ queue' = IF o = "string" /\ Len(queue) < QueueMaxSize
                    THEN Append(queue, r.pkt) ELSE queue
        /\ dispatched' = IF o = "data" THEN Append(dispatched, Entry("sink", r.pkt))
                         ELSE IF o = "string" /\ Len(queue) < QueueMaxSize
                         THEN Append(dispatched, Entry("queue", r.pkt))
                         ELSE dispatched
        /\ ppc' = IF caller = "ping" /\ Returns(o) THEN "get"
                  ELSE IF caller = "ping" /\ o = "raise" THEN "idle"
                  ELSE ppc
        /\ lastPing' = IF caller = "ping" /\ o = "raise"
                       THEN [how |-> "raised", value |-> FALSE, reply |-> NoText,
                             arrived |-> Arrived]
                       ELSE lastPing
  /\ UNCHANGED <<sent, pos, caller, calls, gets, transmitted, atSend, disconnects>>
  /\ UNCHANGED cmdVars
  /\ UNCHANGED other

\* string_packets_queue.put(...) gets a free slot and the loop goes on
PutDone ==
  /\ pc = "put"
  /\ Len(queue) < QueueMaxSize
  /\ queue' = Append(queue, pending)
  /\ dispatched' = Append(dispatched, Entry("queue", pending))
  /\ pending' = NoPacket
  /\ pc' = "loop"
  /\ UNCHANGED <<sent, pos, incoming_bytes, caller, calls, last, raised, disconnects>>
  /\ UNCHANGED pingVars
  /\ UNCHANGED cmdVars
  /\ UNCHANGED other

(***************************************************************************)
(* ping()                                                                  *)
(***************************************************************************)
\* packet = build_command_packet(CMD_PING); transmit(packet)
PingSend ==
  /\ ppc = "idle"
  /\ Len(transmitted) < MaxPings
  /\ transmitted' = Append(transmitted,
                           build_command_packet(str(CMD_PING), default_parameters))
  /\ atSend' = Len(puts)
  /\ ppc' = "receive"
  /\ UNCHANGED <<sent, pos, queue, gets, lastPing>>
  /\ UNCHANGED decodeVars
  /\ UNCHANGED cmdVars
  /\ UNCHANGED other

\* controller.comm_port.receive(): reads what the link holds (possibly
\* nothing) and runs handle_incoming_bytes in the caller
PingReceive ==
  /\ ppc = "receive"
  /\ pc = "idle"
  /\ \E k \in Reads(0) : Enter(k, "ping")
  /\ ppc' = "receiving"
  /\ UNCHANGED <<sent, pending, queue, dispatched, last, raised>>
  /\ UNCHANGED <<transmitted, atSend, lastPing, gets>>
  /\ UNCHANGED cmdVars
  /\ UNCHANGED other

\* faulty variant of PingGet: empties the queue after taking the reply
PingGetDrains ==
  /\ ppc = "get"
  /\ queue # <<>>
  /\ queue' = <<>>
  /\ gets' = Append(gets, Head(queue))
  /\ lastPing' = [how |-> "returned",
                  value |-> (Head(queue).string = STRING_PACKET_TYPE_PONG),
                  reply |-> Head(queue).string,
                  arrived |-> Arrived]
  /\ ppc' = "idle"
  /\ UNCHANGED <<sent, pos, transmitted, atSend>>
  /\ UNCHANGED decodeVars
  /\ UNCHANGED cmdVars
  /\ UNCHANGED other

\* faulty variant of PingGet: takes the newest entry instead of the oldest
PingGetNewest ==
  /\ ppc = "get"
  /\ queue # <<>>
  /\ queue' = SubSeq(queue, 1, Len(queue) - 1)
  /\ gets' = Append(gets, queue[Len(queue)])
  /\ lastPing' = [how |-> "returned",
                  value |-> (queue[Len(queue)].string = STRING_PACKET_TYPE_PONG),
                  reply |-> queue[Len(queue)].string,
                  arrived |-> Arrived]
  /\ ppc' = "idle"
  /\ UNCHANGED <<sent, pos, transmitted, atSend>>
  /\ UNCHANGED decodeVars
  /\ UNCHANGED cmdVars
  /\ UNCHANGED other

\* reply_packet = string_packets_queue.get(timeout=...) finds an entry;
\* return reply_packet.search('string') == STRING_PACKET_TYPE_PONG
PingGet ==
  /\ ppc = "get"
  /\ queue # <<>>
  /\ queue' = Tail(queue)
  /\ gets' = Append(gets, Head(queue))
  /\ lastPing' = [how |-> "returned",
                  value |-> (Head(queue).string = STRING_PACKET_TYPE_PONG),
                  reply |-> Head(queue).string,
                  arrived |-> Arrived]
  /\ ppc' = "idle"
  /\ UNCHANGED <<sent, pos, transmitted, atSend>>
  /\ UNCHANGED decodeVars
  /\ UNCHANGED cmdVars
  /\ UNCHANGED other

\* the get times out on an empty queue: except: return False
PingTimeout ==
  /\ ppc = "get"
  /\ queue = <<>>
  /\ lastPing' = [how |-> "returned", value |-> FALSE, reply |-> NoText,
                  arrived |-> Arrived]
  /\ ppc' = "idle"
  /\ UNCHANGED <<sent, pos, queue, gets, transmitted, atSend>>
  /\ UNCHANGED decodeVars
  /\ UNCHANGED cmdVars
  /\ UNCHANGED other

Next ==
  \/ Receive
  \/ Iterate
  \/ PutDone
  \/ PingSend
  \/ PingReceive
  \/ PingGet
  \/ PingTimeout

Spec == Init /\ [][Next]_vars

(***************************************************************************)
(* The command senders.  Each builds its packet with build_command_packet  *)
(* and transmits it; SpecCmd is the program sending commands while no byte *)
(* arrives.                                                                *)
(***************************************************************************)
\* packet = self.build_command_packet(command, parameters);
\* self.transmit(packet).  [command] + parameters is a new list: the list
\* passed in and the default list are left as they were.
SendCommand(command, parameters) ==
  /\ Len(transmitted) < MaxCommands
  /\ LET packet == build_command_packet(command, parameters)
     IN /\ transmitted' = Append(transmitted, packet)
        /\ lastCall' = [how |-> "called", command |-> command,
                        parameters |-> parameters, after |-> parameters,
                        packet |-> packet]
  /\ UNCHANGED default_parameters
  /\ UNCHANGED <<sent, pos, queue, gets, ppc, atSend, lastPing, other>>
  /\ UNCHANGED decodeVars

register_input_channel ==
  \E c \in RegisterCalls : SendCommand(c.command, c.parameters)

set_channel_direction ==
  \E c \in DirectionCalls : SendCommand(c.command, c.parameters)

write_to_channel ==
  \E c \in WriteCalls : SendCommand(c.command, c.parameters)

start_acquiring_data ==
  SendCommand(str(CMD_ACQUIRE_START), default_parameters)

InitCmd ==
  /\ sent = <<>>
  /\ pos = 0
  /\ incoming_bytes = <<>>
  /\ pc = "idle"
  /\ caller = "transport"
  /\ pending = NoPacket
  /\ queue = <<>>
  /\ dispatched = <<>>
  /\ gets = <<>>
  /\ calls = 0
  /\ last = "none"
  /\ raised = FALSE
  /\ ppc = "idle"
  /\ transmitted = <<>>
  /\ atSend = 0
  /\ lastPing = NoPing
  /\ disconnects = 0
  /\ default_parameters = <<>>
  /\ lastCall = NoCall
  /\ other = NoOther

NextCmd ==
  \/ register_input_channel
  \/ set_channel_direction
  \/ write_to_channel
  \/ start_acquiring_data

SpecCmd == InitCmd /\ [][NextCmd]_vars

(***************************************************************************)
(* Two instances.  string_packets_queue is assigned in the class body and  *)
(* never in __init__ or a method, so self.string_packets_queue is the same *)
(* Queue object for every instance.  In SpecTwo the first instance decodes *)
(* its stream and the second instance, on whose link nothing arrives,      *)
(* pings.                                                                  *)
(***************************************************************************)
\* packet = build_command_packet(CMD_PING); transmit(packet), on the second
\* instance
OtherPingSend ==
  /\ other.ppc = "idle"
  /\ Len(other.transmitted) < MaxPings
  /\ other' = [other EXCEPT
                 !.transmitted = Append(@, build_command_packet(str(CMD_PING),
                                                                default_parameters)),
                 !.ppc = "receive"]
  /\ UNCHANGED <<sent, pos, queue, gets>>
  /\ UNCHANGED decodeVars
  /\ UNCHANGED <<ppc, transmitted, atSend, lastPing>>
  /\ UNCHANGED cmdVars

\* controller.comm_port.receive() of the second instance: nothing has
\* arrived, handle_incoming_bytes runs on its own buffer
OtherPingReceive ==
  /\ other.ppc = "receive"
  /\ other' = [other EXCEPT !.incoming_bytes = RunLoop(@).buf, !.ppc = "get"]
  /\ UNCHANGED <<sent, pos, queue, gets>>
  /\ UNCHANGED decodeVars
  /\ UNCHANGED <<ppc, transmitted, atSend, lastPing>>
  /\ UNCHANGED cmdVars

\* self.string_packets_queue.get(timeout=...) of the second instance finds
\* an entry in the class's queue
OtherPingGet ==
  /\ other.ppc = "get"
  /\ queue # <<>>
  /\ queue' = Tail(queue)
  /\ gets' = Append(gets, Head(queue))
  /\ other' = [other EXCEPT
                 !.lastPing = [how |-> "returned",
                               value |-> (Head(queue).string = STRING_PACKET_TYPE_PONG),
                               reply |-> Head(queue).string,
                               arrived |-> NoText],
                 !.ppc = "idle"]
  /\ UNCHANGED <<sent, pos>>
  /\ UNCHANGED decodeVars
  /\ UNCHANGED <<ppc, transmitted, atSend, lastPing>>
  /\ UNCHANGED cmdVars

\* the get of the second instance times out: except: return False
OtherPingTimeout ==
  /\ other.ppc = "get"
  /\ queue = <<>>
  /\ other' = [other EXCEPT
                 !.lastPing = [how |-> "returned", value |-> FALSE,
                               reply |-> NoText, arrived |-> NoText],
                 !.ppc = "idle"]
  /\ UNCHANGED <<sent, pos, queue, gets>>
  /\ UNCHANGED decodeVars
  /\ UNCHANGED <<ppc, transmitted, atSend, lastPing>>
  /\ UNCHANGED cmdVars

NextTwo ==
  \/ Receive
  \/ Iterate
  \/ PutDone
  \/ OtherPingSend
  \/ OtherPingReceive
  \/ OtherPingGet
  \/ OtherPingTimeout

SpecTwo == Init /\ [][NextTwo]_vars

TypeOK ==
  /\ pos \in 0..Len(sent)
  /\ pc \in {"idle", "loop", "put"}
  /\ caller \in {"transport", "ping"}
  /\ ppc \in {"idle", "receive", "receiving", "get"}
  /\ Len(queue) <= QueueMaxSize
  /\ calls \in 0..2
  /\ disconnects \in 0..1

(***************************************************************************)
(* Properties.                                                             *)
(***************************************************************************)
\* every byte of the stream has been read and handled
Done == pos = Len(sent) /\ pc = "idle"

\* the whole stream was put in the buffer and handled by one call
OneCall == Done /\ calls = 1

\* C1: chunk-boundary independence.  When the stream has been read in any
\* chunks, each followed by one handle_incoming_bytes call, the packets
\* dispatched are those one call on the whole stream dispatches (no ping has
\* run and no call has raised).
C1_ChunkIndependence ==
  (Done /\ transmitted = <<>> /\ ~raised /\ ~RunLoop(sent).raised)
    => dispatched = RunLoop(sent).dispatched

\* C2: noise before a packet is discarded and the packet still delivered.
\* One call on noise bytes followed by one valid STRING packet puts exactly
\* that packet on the queue and leaves the buffer empty.
C2_NoiseThenString ==
  \A n \in 1..MaxNoise : \A p \in {PongPacket, PonxPacket} :
    (sent = Noise(n) \o p /\ OneCall)
      => /\ dispatched = <<Entry("queue", StringParse(p))>>
         /\ incoming_bytes = <<>>

\* the DataPacket with one block: timestamp words ts, block id, values
IsDataPacket(e, ts, id, values) ==
  /\ e.to = "sink"
  /\ e.pkt.relative_start_timestamp = ts
  /\ Len(e.pkt.data_blocks) = 1
  /\ e.pkt.data_blocks[1].block_id = id
  /\ e.pkt.data_blocks[1].data.Int8 = values

\* one call on a buffer holding the packet passes update_input_channels
\* exactly one DataPacket, with these fields, and nothing to the queue
OneDataPacket(packet, ts, id, values) ==
  (sent = packet /\ OneCall)
    => /\ Len(dispatched) = 1
       /\ IsDataPacket(dispatched[1], ts, id, values)
       /\ incoming_bytes = <<>>

\* C3 as stated: a complete well-formed DATA packet yields exactly one
\* DataPacket with the encoded timestamp, ids and values, and so does the
\* 16-byte example buffer with declared length 10.
C3_Original ==
  /\ OneDataPacket(DataPacket, <<0, 0>>, 5, <<7>>)
  /\ OneDataPacket(MarkerDataPacket, <<0, 1>>, 6, CONST_HEADER)
  /\ OneDataPacket(ShortLengthPacket, <<0, 0>>, 5, <<7>>)

\* C3 amended: a complete DATA packet whose packet_length is its total size
\* (7-byte header included; 16 for the example) yields exactly one DataPacket
\* with the encoded timestamp, ids and values; with declared length 10 the
\* example dispatches nothing.
C3_DataPacketDecoded ==
  /\ OneDataPacket(DataPacket, <<0, 0>>, 5, <<7>>)
  /\ OneDataPacket(MarkerDataPacket, <<0, 1>>, 6, CONST_HEADER)
  /\ (sent = ShortLengthPacket /\ OneCall) => dispatched = <<>>

C3_Witness ==
  /\ sent = DataPacket
  /\ OneCall
  /\ Len(dispatched) = 1
  /\ IsDataPacket(dispatched[1], <<0, 0>>, 5, <<7>>)

\* C4: every iteration of the loop either returns or leaves the buffer
\* strictly shorter than it was at the start of the iteration.
C4_ReturnsOrShrinks ==
  [][Iterate
       => \/ pc' = "idle" /\ last' # "raise"
          \/ Len(incoming_bytes') < Len(incoming_bytes)]_vars

\* C5: no exception leaves handle_incoming_bytes.
C5_NoException == ~raised

\* C6: the decode activity never waits on the reply queue.
C6_DecodeNeverWaits == pc # "put"

\* C7: ping returns true if and only if a STRING packet arrives after the
\* PING was sent, before the wait ends, and its text is 'PONG'.
C7_PingTrueIffReply ==
  lastPing.how = "returned"
    => (lastPing.value <=> lastPing.arrived = STRING_PACKET_TYPE_PONG)

\* a ping ends its wait on the queue in this step
PingEndsWait == ppc = "get" /\ ppc' = "idle"

\* C8: a ping that finds a reply removes exactly the oldest entry of the
\* queue and leaves the others in place and in order; a ping that times out
\* removes nothing (the queue was and stays empty); nothing else removes
\* entries.
C8_PingQueueEffect ==
  [][/\ PingEndsWait /\ lastPing'.reply # NoText
          => /\ queue # <<>>
             /\ lastPing'.reply = Head(queue).string
             /\ queue' = Tail(queue)
     /\ PingEndsWait /\ lastPing'.reply = NoText
          => queue = <<>> /\ queue' = <<>>
     /\ ~PingEndsWait
          => \/ queue' = queue
             \/ Len(queue') = Len(queue) + 1 /\ SubSeq(queue', 1, Len(queue)) = queue]_vars

C8_Witness ==
  /\ lastPing.how = "returned"
  /\ lastPing.reply # NoText
  /\ Len(gets) = 1
  /\ queue # <<>>

\* C9: every STRING packet the decode loop puts on the queue is delivered to
\* at most one ping, none is lost while it waits in the queue, and they are
\* delivered in the order they were decoded: the packets put so far are the
\* packets the pings took, in order, followed by the queue.
C9_Fifo ==
  [i \in 1..Len(puts) |-> puts[i].pkt] = gets \o queue

C9_Witness ==
  /\ Len(gets) = 2
  /\ gets[1].string # gets[2].string
  /\ queue = <<>>

\* a buffer that starts with a complete packet of ValidPackets
StartsWithPacket(buf) ==
  /\ Len(buf) >= HeaderSize
  /\ ParseHeader(buf).ok
  /\ Len(buf) >= ParseHeader(buf).packet_length
  /\ SubSeq(buf, 1, ParseHeader(buf).packet_length) \in ValidPackets

\* what the dispatch of packet p is
Decoded(p) ==
  IF ParseHeader(p).type = "DATA_PACKET"
  THEN Entry("sink", DataParse(p)) ELSE Entry("queue", StringParse(p))

\* C10: a truncated packet is retained and not dispatched.  A call that
\* returns for want of header or packet bytes dispatches nothing and leaves
\* the buffer from the marker on unchanged; at the next call that finds the
\* packet complete, exactly that packet is dispatched and exactly its bytes
\* are removed; a stream that holds one packet never dispatches two.
C10_TruncatedRetained ==
  /\ [][Iterate /\ last' \in {"no_header", "incomplete"}
          => /\ dispatched' = dispatched
             /\ queue' = queue
             /\ incoming_bytes' = DropFirst(incoming_bytes, Find(incoming_bytes))
             /\ SubSeq(incoming_bytes', 1, Len(CONST_HEADER)) = CONST_HEADER]_vars
  /\ [][Iterate /\ last \in {"no_header", "incomplete"} /\ StartsWithPacket(incoming_bytes)
          => LET p == SubSeq(incoming_bytes, 1, ParseHeader(incoming_bytes).packet_length)
             IN /\ incoming_bytes' = DropFirst(incoming_bytes, Len(p))
                /\ \/ dispatched' = Append(dispatched, Decoded(p))
                   \/ pc' = "put" /\ pending' = Decoded(p).pkt]_vars
  /\ [](\A n \in 0..MaxNoise : \A p \in ValidPackets :
          sent = Noise(n) \o p => dispatched \in {<<>>, <<Decoded(p)>>})

C10_Witness ==
  /\ sent \in ValidPackets
  /\ Done
  /\ calls = 2
  /\ last = "no_marker"
  /\ dispatched = <<Decoded(sent)>>

(***************************************************************************)
(* C11: build_command_packet returns the command followed by each          *)
(* parameter in order, separated by exactly one space and ended by exactly *)
(* one carriage return with no space before it: ('CH:WRITE', ['A0',        *)
(* '123']) gives 'CH:WRITE A0 123\r' and ('PING', []) gives 'PING\r'; the  *)
(* list passed in and the shared default list are not modified.            *)
(***************************************************************************)
\* text.split(' ')
RECURSIVE SplitOnSpace(_)
SplitOnSpace(text) ==
  IF \A i \in 1..Len(text) : text[i] # 32 THEN <<text>>
  ELSE LET i == CHOOSE j \in 1..Len(text) :
                  text[j] = 32 /\ \A k \in 1..(j - 1) : text[k] # 32
       IN <<SubSeq(text, 1, i - 1)>> \o SplitOnSpace(SubSeq(text, i + 1, Len(text)))

Occurrences(text, c) == Cardinality({i \in 1..Len(text) : text[i] = c})

C11_CommandPacket ==
  /\ build_command_packet(str(CMD_PING), default_parameters) = <<80, 73, 78, 71, 13>>
  /\ default_parameters = <<>>
  /\ lastCall.how = "called" =>
       LET packet == lastCall.packet
           words == <<lastCall.command>> \o lastCall.parameters
       IN /\ packet = transmitted[Len(transmitted)]
          /\ packet[Len(packet)] = 13
          /\ Occurrences(packet, 13) = 1
          /\ Occurrences(packet, 32) = Len(lastCall.parameters)
          /\ SplitOnSpace(SubSeq(packet, 1, Len(packet) - 1))
               = [i \in 1..Len(words) |-> Format(words[i])]
          /\ lastCall.after = lastCall.parameters
          /\ (/\ lastCall.command = str(CMD_CHANNEL_WRITE)
              /\ lastCall.parameters = <<str(<<65, 48>>), str(<<49, 50, 51>>)>>)
               => packet = <<67, 72, 58, 87, 82, 73, 84, 69, 32, 65, 48, 32, 49, 50, 51, 13>>

\* write_to_channel('A0', ['123', 123]) after start_acquiring_data()
C11_Witness ==
  /\ Len(transmitted) = 2
  /\ transmitted[1] = <<65, 67, 81, 85, 73, 82, 69, 58, 83, 84, 65, 82, 84, 13>>
  /\ lastCall.how = "called"
  /\ lastCall.parameters = <<str(<<65, 48>>), str(<<49, 50, 51>>), int(123)>>
  /\ lastCall.packet = <<67, 72, 58, 87, 82, 73, 84, 69, 32, 65, 48, 32, 49, 50, 51, 32, 49, 50, 51, 13>>

(***************************************************************************)
(* C12: handle_incoming_bytes calls controller.disconnect() exactly once   *)
(* when the buffer it is given is longer than MAX_BYTES_PER_READ and never *)
(* when the buffer is at most that long.                                   *)
(***************************************************************************)
C12_DisconnectOnOverload ==
  [][/\ (pc = "idle" /\ pc' # "idle") =>
          /\ Len(incoming_bytes') > MAX_BYTES_PER_READ => disconnects' = 1
          /\ Len(incoming_bytes') <= MAX_BYTES_PER_READ => disconnects' = 0
     /\ pc # "idle" => disconnects' = disconnects]_vars

\* a call on an overlong buffer has returned, after one disconnect()
C12_Witness ==
  /\ pc = "idle"
  /\ calls = 1
  /\ ~raised
  /\ disconnects = 1

(***************************************************************************)
(* C13: every ping call returns: after transmitting PING once the caller   *)
(* is blocked for at most the timeout and then returns true or false, also *)
(* when the queue is full while ping's own comm_port.receive() decodes a   *)
(* further STRING packet.  A ping that is inside receive(), in put() on    *)
(* the full queue, can take no step and neither can anything else: the     *)
(* only consumer of the queue is the get() that ping has not reached.  So  *)
(* the claim needs that no ping is ever in that state.                     *)
(***************************************************************************)
C13_PingNeverBlockedInPut ==
  ~(/\ ppc = "receiving"
    /\ caller = "ping"
    /\ pc = "put"
    /\ Len(queue) = QueueMaxSize
    /\ ~ENABLED Next)

(***************************************************************************)
(* C14: a packet with an unrecognized type is discarded without dispatch   *)
(* and without collateral loss: exactly its declared length is removed,    *)
(* nothing is dispatched for it, and a complete valid packet that follows  *)
(* it in the same buffer is still decoded and dispatched.  So one call on  *)
(* the unknown packet followed by q returns normally, having dispatched    *)
(* and left what a call on q alone dispatches and leaves.                  *)
(***************************************************************************)
C14_UnknownTypeDiscarded ==
  \A q \in Followers :
    (OneCall /\ transmitted = <<>> /\ sent = UnknownTypePacket \o q) =>
      /\ ~raised
      /\ dispatched = RunLoop(q).dispatched
      /\ incoming_bytes = RunLoop(q).buf

(***************************************************************************)
(* C15: a marker inside the payload of a packet never starts a new packet. *)
(* For the stream of the DATA packet whose block data is A5 A5 A5 A5,      *)
(* alone or followed by a valid packet, read in one chunk or in several:   *)
(* no call raises, the packets dispatched are the packets of the stream,   *)
(* in order, and no call leaves a buffer that starts at the payload's      *)
(* marker.                                                                 *)
(***************************************************************************)
\* the bytes of MarkerDataPacket from its payload's marker on
PayloadMarkerOn == SubSeq(MarkerDataPacket, Len(MarkerDataPacket) - 3, Len(MarkerDataPacket))

C15_PayloadMarkerNotFramed ==
  \A q \in Followers :
    (sent = MarkerDataPacket \o q /\ transmitted = <<>>) =>
      /\ ~raised
      /\ pc = "idle" =>
           ~(/\ Len(incoming_bytes) >= 4
             /\ SubSeq(incoming_bytes, 1, 4) = PayloadMarkerOn
             /\ pos = Len(MarkerDataPacket))
      /\ Done =>
           dispatched = <<Decoded(MarkerDataPacket)>>
                          \o (IF q = <<>> THEN <<>> ELSE <<Decoded(q)>>)

(***************************************************************************)
(* C16: when one buffer holds several complete packets back to back, a     *)
(* single handle_incoming_bytes call dispatches each of them exactly once  *)
(* and in stream order, consuming exactly the declared length of each;     *)
(* every DATA packet goes to update_input_channels and never to the queue, *)
(* every STRING packet goes to the queue and never to                      *)
(* update_input_channels.  At every moment of the call the dispatches made *)
(* are the first packets of the buffer, each to its destination, and the   *)
(* bytes left are the bytes of the packets not taken yet; when the call    *)
(* has returned all of them are dispatched and the buffer is empty.        *)
(***************************************************************************)
\* buffers of two valid packets, and of more STRING packets than the queue holds
BackToBack ==
  {p \o q : p \in ValidPackets, q \in Followers \ {<<>>}} \cup {Burst}

\* the packets of a buffer of back-to-back packets, by their declared lengths
RECURSIVE PacketsOf(_)
PacketsOf(buf) ==
  IF buf = <<>> THEN <<>>
  ELSE LET length == buf[6] * 256 + buf[7]
       IN <<SubSeq(buf, 1, length)>> \o PacketsOf(SubSeq(buf, length + 1, Len(buf)))

\* where packet p has to go, by its type byte
Routed(p) ==
  IF p[5] = incoming_packet_types.DATA_PACKET
  THEN Entry("sink", DataParse(p)) ELSE Entry("queue", StringParse(p))

RECURSIVE Concat(_)
Concat(ps) == IF ps = <<>> THEN <<>> ELSE Head(ps) \o Concat(Tail(ps))

C16_BackToBack ==
  (sent \in BackToBack /\ calls = 1 /\ pos = Len(sent)) =>
    LET ps == PacketsOf(sent)
        n == Len(dispatched)
        taken == IF pc = "put" THEN n + 1 ELSE n
    IN /\ ~raised
       /\ n <= Len(ps)
       /\ \A i \in 1..n : dispatched[i] = Routed(ps[i])
       /\ pc = "put" => n < Len(ps) /\ pending = Routed(ps[n + 1]).pkt
       /\ incoming_bytes = Concat(SubSeq(ps, taken + 1, Len(ps)))
       /\ pc = "idle" => n = Len(ps)

\* a DATA packet and a STRING packet in one buffer, handled by one call
C16_Witness ==
  /\ sent = DataPacket \o PongPacket
  /\ OneCall
  /\ Len(sink) = 1
  /\ Len(puts) = 1
  /\ dispatched[1].to = "sink"
  /\ incoming_bytes = <<>>

(***************************************************************************)
(* C17: at every normal return of handle_incoming_bytes the buffer is      *)
(* empty or starts with the 4-byte marker at index 0; a buffer that holds  *)
(* no marker is emptied completely with no dispatch, and bytes before the  *)
(* first marker are never kept.                                            *)
(***************************************************************************)
StartsWithMarker(buf) ==
  Len(buf) >= Len(CONST_HEADER) /\ SubSeq(buf, 1, Len(CONST_HEADER)) = CONST_HEADER

C17_BufferAtReturn ==
  /\ []((pc = "idle" /\ Returns(last)) =>
          (incoming_bytes = <<>> \/ StartsWithMarker(incoming_bytes)))
  /\ [][(Iterate /\ Find(incoming_bytes) = -1) =>
          /\ pc' = "idle"
          /\ raised' = raised
          /\ incoming_bytes' = <<>>
          /\ dispatched' = dispatched
          /\ queue' = queue]_vars
  /\ [][(Iterate /\ Find(incoming_bytes) > 0 /\ Returns(last')) =>
          incoming_bytes' = SubSeq(incoming_bytes, Find(incoming_bytes) + 1,
                                   Len(incoming_bytes))]_vars

\* a call has returned on noise followed by the start of a packet, and
\* another on bytes without a marker
C17_Witness ==
  /\ pc = "idle"
  /\ calls = 2
  /\ last = "incomplete"
  /\ sent[1] = 255
  /\ StartsWithMarker(incoming_bytes)
  /\ Len(incoming_bytes) < pos

(***************************************************************************)
(* C18: reply queues are isolated per connection.  With two instances, a   *)
(* STRING packet decoded by handle_incoming_bytes of one instance is never *)
(* consumed by a ping on the other, and a ping on an instance whose own    *)
(* stream carried no STRING packet returns false.  The second instance's   *)
(* stream carries nothing: its ping takes no packet and returns false.     *)
(***************************************************************************)
C18_QueuesIsolated ==
  /\ other.lastPing.reply = NoText
  /\ other.lastPing.value = FALSE

(***************************************************************************)
(* C19: overload does not stop decoding.  When handle_incoming_bytes is    *)
(* given a buffer longer than MAX_BYTES_PER_READ, after disconnect() it    *)
(* still runs the decode loop on that buffer: what it dispatches and the   *)
(* buffer it leaves are those of the loop on that content with no size     *)
(* limit.                                                                  *)
(***************************************************************************)
C19_OverloadStillDecodes ==
  (OneCall /\ Len(sent) > MAX_BYTES_PER_READ) =>
    /\ disconnects = 1
    /\ last # "none"
    /\ dispatched = RunLoop(sent).dispatched
    /\ incoming_bytes = RunLoop(sent).buf
    /\ raised = RunLoop(sent).raised

\* a call on 27 bytes has disconnected and dispatched both packets
C19_Witness ==
  /\ OneCall
  /\ sent = DataPacket \o PongPacket
  /\ disconnects = 1
  /\ Len(dispatched) = 2
  /\ incoming_bytes = <<>>

====
